---- MODULE Spec2Model ----
(***************************************************************************)
(* A model of the chronos-go HTTP client (chronos.go, and the operations   *)
(* file that follows the test in chronos_test.go): the schedule formatter, *)
(* the request builder that rewrites the client's URL, the executor        *)
(* apiCall and the public operations.                                      *)
(*                                                                         *)
(* Text that the code inspects character by character (repetitions,        *)
(* intervals, names, schedules) is a sequence of one-character strings.    *)
(* Text that the code only concatenates or compares (error messages,       *)
(* status lines) is a string.                                              *)
(***************************************************************************)
EXTENDS Integers, Sequences, FiniteSets, TLC

VARIABLES
    url,        \* client.URL: the one *url.URL every call rewrites
    apiPrefix,  \* client.APIPrefix
    pc,         \* per caller: the place its current call has reached
    call,       \* per caller: the operation it runs and its arguments
    jobArg,     \* per caller: the Job object its job pointer refers to
    localQuery, \* per caller: buildURL's local variable query
    request,    \* per caller: the http.Request built by newRequest
    trips,      \* per caller: calls of client.http.Do made by the operation
    slot,       \* per caller: the value behind apiCall's result argument
    ret,        \* per caller: what apiCall and the operation returned
    fmtIn,      \* the arguments of a FormatSchedule call
    fmtOut      \* what FormatSchedule returned for them

vars == <<url, apiPrefix, pc, call, jobArg, localQuery, request, trips, slot,
          ret, fmtIn, fmtOut>>

clientVars == <<url, apiPrefix, pc, call, jobArg, localQuery, request, trips,
                slot, ret>>

fmtVars == <<fmtIn, fmtOut>>

---------------------------------------------------------------------------
(* Bounds of the model.                                                    *)

MaxRepsLen == 3

MaxIntervalLen == 2

MaxQuery == 2

---------------------------------------------------------------------------
(* Character-sequence helpers.                                             *)

SeqsUpTo(alphabet, n) == UNION {[1..k -> alphabet] : k \in 0..n}

\* strings.HasPrefix(s, prefix)
HasPrefix(s, prefix) ==
    /\ Len(s) >= Len(prefix)
    /\ SubSeq(s, 1, Len(prefix)) = prefix

Digits == <<"0", "1", "2", "3", "4", "5", "6", "7", "8", "9">>

IsDigit(c) == \E i \in 1..10 : Digits[i] = c

\* The decimal digits of n, at least width of them (zero padded).
RECURSIVE Pad(_, _)
Pad(n, width) ==
    IF width <= 1 /\ n < 10
    THEN <<Digits[n + 1]>>
    ELSE Pad(n \div 10, width - 1) \o <<Digits[(n % 10) + 1]>>

\* s without its trailing "0" characters.
RECURSIVE TrimZeros(_)
TrimZeros(s) ==
    IF s # <<>> /\ s[Len(s)] = "0"
    THEN TrimZeros(SubSeq(s, 1, Len(s) - 1))
    ELSE s

---------------------------------------------------------------------------
(* time.Time: an instant (day: days since 0001-01-01 UTC, sec: second of   *)
(* that day, nsec) and the offset in seconds of its location.              *)

ZeroTime == [day |-> 0, sec |-> 0, nsec |-> 0, off |-> 0]

Times ==
    { ZeroTime,
      [day |-> 0, sec |-> 0, nsec |-> 0, off |-> 3600],
      [day |-> 738520, sec |-> 0, nsec |-> 0, off |-> 0],
      [day |-> 738944, sec |-> 86399, nsec |-> 500000000, off |-> 3600],
      [day |-> 0, sec |-> 0, nsec |-> 1, off |-> -28800] }

\* t.IsZero(): the instant January 1, year 1, 00:00:00 UTC, in any location.
IsZero(t) == t.day = 0 /\ t.sec = 0 /\ t.nsec = 0

\* The civil date <<year, month, day>> of a day number (proleptic Gregorian).
CivilFromDays(day) ==
    LET z   == day + 306
        era == z \div 146097
        doe == z - era * 146097
        yoe == (doe - doe \div 1460 + doe \div 36524 - doe \div 146096) \div 365
        doy == doe - (365 * yoe + yoe \div 4 - yoe \div 100)
        mp  == (5 * doy + 2) \div 153
        d   == doy - (153 * mp + 2) \div 5 + 1
        m   == IF mp < 10 THEN mp + 3 ELSE mp - 9
        y   == yoe + era * 400 + (IF m <= 2 THEN 1 ELSE 0)
    IN  <<y, m, d>>

\* t.Format(time.RFC3339Nano): "2006-01-02T15:04:05.999999999Z07:00".
RFC3339Nano(t) ==
    LET local == t.sec + t.off
        lday  == t.day + (IF local < 0 THEN -1 ELSE local \div 86400)
        lsec  == (local + 86400) % 86400
        ymd   == CivilFromDays(lday)
        frac  == IF t.nsec = 0 THEN <<>>
                 ELSE <<".">> \o TrimZeros(Pad(t.nsec, 9))
        aoff  == IF t.off < 0 THEN -t.off ELSE t.off
        zone  == IF t.off = 0 THEN <<"Z">>
                 ELSE <<(IF t.off < 0 THEN "-" ELSE "+")>>
                      \o Pad(aoff \div 3600, 2) \o <<":">>
                      \o Pad((aoff % 3600) \div 60, 2)
    IN  Pad(ymd[1], 4) \o <<"-">> \o Pad(ymd[2], 2) \o <<"-">> \o Pad(ymd[3], 2)
        \o <<"T">> \o Pad(lsec \div 3600, 2) \o <<":">>
        \o Pad((lsec % 3600) \div 60, 2) \o <<":">> \o Pad(lsec % 60, 2)
        \o frac \o zone

\* formatTimeString without its IsZero test.
formatTimeString_NoZeroTest(t) == RFC3339Nano(t)

formatTimeString(t) == IF IsZero(t) THEN <<>> ELSE RFC3339Nano(t)

---------------------------------------------------------------------------
(* The schedule formatter.                                                 *)

NoError == ""

RepsError == "Repetitions string not formatted correctly"

IntervalError == "Interval string not formatted correctly"

validateReps(reps) ==
    IF HasPrefix(reps, <<"R">>) THEN NoError ELSE RepsError

validateInterval(interval) ==
    IF HasPrefix(interval, <<"P">>) THEN NoError ELSE IntervalError

FormatSchedule(startTime, interval, reps) ==
    IF validateInterval(interval) # NoError
    THEN [schedule |-> <<>>, err |-> validateInterval(interval)]
    ELSE IF validateReps(reps) # NoError
    THEN [schedule |-> <<>>, err |-> validateReps(reps)]
    ELSE [schedule |-> reps \o <<"/">> \o formatTimeString(startTime)
                            \o <<"/">> \o interval,
          err |-> NoError]

RunOnceNowSchedule == <<"R", "1", "/", "/", "P", "T", "2", "M">>

---------------------------------------------------------------------------
(* The domain model: endpoints, verbs, the Job record and its JSON form.   *)

HTTPGet == "GET"

HTTPPut == "PUT"

HTTPDelete == "DELETE"

HTTPPost == "POST"

ChronosAPIJob == <<"scheduler", "job">>

ChronosAPIJobs == <<"scheduler", "jobs">>

ChronosAPIJobsSearch == <<"scheduler", "jobs", "search">>

ChronosAPIKillJobTask == <<"scheduler", "task", "kill">>

ChronosAPIAddScheduledJob == <<"scheduler", "iso8601">>

ChronosAPIAddDependentJob == <<"scheduler", "dependency">>

\* A Job, with the fields the operations write (Schedule, Epsilon) and a
\* sample of those they leave alone.  CPUs is a float32, written here by its
\* literal; "NaN" is the value encoding/json cannot serialize.
BaseJob ==
    [Name |-> "j", Command |-> "c", Epsilon |-> "", CPUs |-> "0",
     Schedule |-> <<>>, Parents |-> <<>>]

JobInputs ==
    { BaseJob,
      [BaseJob EXCEPT !.Schedule = <<"R", "5", "/", "/", "P", "1", "D">>,
                      !.Epsilon = "PT5M", !.CPUs = "0.5"],
      [BaseJob EXCEPT !.Parents = <<"p">>],
      [BaseJob EXCEPT !.Schedule = RunOnceNowSchedule, !.Parents = <<"p">>,
                      !.Epsilon = "PT10M"],
      [BaseJob EXCEPT !.CPUs = "NaN"] }

MarshalError == "json: unsupported value: NaN"

\* json.Marshal(job): name and command are always written, every other
\* field only when it is not its zero value (omitempty); a NaN float is an
\* UnsupportedValueError.  The text is the set of keys written and the
\* values under them (an omitted key reads back as the zero value).
Marshal(job) ==
    IF job.CPUs = "NaN"
    THEN [err |-> MarshalError, text |-> <<>>]
    ELSE [err |-> NoError,
          text |-> << [keys |-> {"name", "command"}
                          \cup (IF job.Epsilon # "" THEN {"epsilon"} ELSE {})
                          \cup (IF job.CPUs # "0" THEN {"cpus"} ELSE {})
                          \cup (IF job.Schedule # <<>> THEN {"schedule"} ELSE {})
                          \cup (IF job.Parents # <<>> THEN {"parents"} ELSE {}),
                       name |-> job.Name,
                       command |-> job.Command,
                       epsilon |-> job.Epsilon,
                       cpus |-> job.CPUs,
                       schedule |-> job.Schedule,
                       parents |-> job.Parents] >>]

---------------------------------------------------------------------------
(* The request builder: path joining and the query string.                 *)

\* path.Clean on a relative path given by its segments: empty and "."
\* segments go, ".." removes the segment before it (or stays, at the start).
RECURSIVE Clean(_, _)
Clean(done, rest) ==
    IF rest = <<>> THEN done
    ELSE LET seg == Head(rest) IN
         IF seg = "" \/ seg = "." THEN Clean(done, Tail(rest))
         ELSE IF seg = ".." /\ done # <<>> /\ done[Len(done)] # ".."
         THEN Clean(SubSeq(done, 1, Len(done) - 1), Tail(rest))
         ELSE Clean(Append(done, seg), Tail(rest))

\* path.Join(a, b)
pathJoin(a, b) == Clean(<<>>, a \o b)

\* url.QueryEscape / url.QueryUnescape on the characters of the model:
\* a space travels as "+".
QueryEscape(v) == [i \in 1..Len(v) |-> IF v[i] = " " THEN "+" ELSE v[i]]

QueryUnescape(v) == [i \in 1..Len(v) |-> IF v[i] = "+" THEN " " ELSE v[i]]

\* The keys the operations use, in the order Values.Encode sorts them.
QueryKeys == <<"arg", "name">>

\* URL.Query(): the pairs of RawQuery, values unescaped.
Query(raw) == [i \in 1..Len(raw) |-> <<raw[i][1], QueryUnescape(raw[i][2])>>]

\* Values.Encode(): keys sorted, each key's values in the order added.
RECURSIVE EncodeKeys(_, _)
EncodeKeys(q, keys) ==
    IF keys = <<>> THEN <<>>
    ELSE LET mine == SelectSeq(q, LAMBDA kv : kv[1] = Head(keys))
         IN  [i \in 1..Len(mine) |-> <<mine[i][1], QueryEscape(mine[i][2])>>]
             \o EncodeKeys(q, Tail(keys))

Encode(q) == EncodeKeys(q, QueryKeys)

\* buildURL, lines 114-117: the query already on client.URL, plus the
\* call's parameters.
buildQuery(u, queryParams) == Query(u.RawQuery) \o queryParams

\* buildURL, line 120.
buildPath(prefix, uri) == pathJoin(prefix, uri)

---------------------------------------------------------------------------
(* The transport's answers and the JSON decoder.                           *)

Statuses == {200, 299, 300, 500}

\* response.Status for the codes above.
StatusLine(code) ==
    CASE code = 200 -> "200 OK"
      [] code = 299 -> "299 Custom"
      [] code = 300 -> "300 Multiple Choices"
      [] code = 500 -> "500 Internal Server Error"

\* Response bodies: none, a JSON array of jobs (here: of their names), a
\* JSON object (valid JSON of another shape than Jobs), and text that is
\* not JSON.
EmptyBody == [kind |-> "empty", val |-> <<>>]

Bodies ==
    { EmptyBody,
      [kind |-> "jobs", val |-> <<"j1">>],
      [kind |-> "object", val |-> <<>>],
      [kind |-> "garbage", val |-> <<>>] }

\* The number of bytes of a body.
BodyLen(body) ==
    CASE body.kind = "empty" -> 0
      [] body.kind = "jobs" -> 15
      [] body.kind = "object" -> 15
      [] body.kind = "garbage" -> 6

\* http.Response as apiCall reads it.  ContentLength is the declared
\* length, or -1 when the response declares none (chunked, or read until
\* the connection closes); a declared length is the length of the body.
Responses ==
    UNION { { [StatusCode |-> s, Status |-> StatusLine(s), ContentLength |-> n,
               Body |-> b] : n \in {-1, BodyLen(b)} } :
            s \in Statuses, b \in Bodies }

TransportErrors == {"dial tcp 127.0.0.1:4400: connect: connection refused"}

\* The result argument of apiCall: nil (ptr = FALSE) or a pointer to a Jobs.
NilSlot == [ptr |-> FALSE, val |-> <<>>]

NewJobs == [ptr |-> TRUE, val |-> <<>>]

\* json.NewDecoder(response.Body).Decode(result)
Decode(body, result) ==
    CASE body.kind = "empty" ->
            [err |-> "EOF", slot |-> result]
      [] body.kind = "garbage" ->
            [err |-> "invalid character '<' looking for beginning of value",
             slot |-> result]
      [] body.kind \in {"jobs", "object"} /\ ~result.ptr ->
            [err |-> "json: Unmarshal(nil)", slot |-> result]
      [] body.kind = "object" /\ result.ptr ->
            [err |-> "json: cannot unmarshal object into Go value of type chronos.Jobs",
             slot |-> result]
      [] body.kind = "jobs" /\ result.ptr ->
            [err |-> NoError, slot |-> [result EXCEPT !.val = body.val]]

---------------------------------------------------------------------------
(* The executor.                                                           *)

\* apiCall, line 98: whether the body is decoded.
HasBody(response) == response.ContentLength # 0

\* The status test with its upper limit one too low.
IsFailureStatus_OffByOne(status) == status < 200 \/ status >= 299

\* apiCall, line 107.
IsFailureStatus(status) == status < 200 \/ status > 299

\* apiCall with the status looked at before the body is decoded.
apiCallResult_StatusFirst(response, result) ==
    IF response.StatusCode < 200 \/ response.StatusCode > 299
    THEN [status |-> response.StatusCode, err |-> response.Status, slot |-> result,
          decodeCalled |-> FALSE]
    ELSE LET d == IF response.ContentLength # 0 THEN Decode(response.Body, result)
                  ELSE [err |-> NoError, slot |-> result]
         IN  [status |-> response.StatusCode, err |-> d.err, slot |-> d.slot,
              decodeCalled |-> response.ContentLength # 0]

\* apiCall, lines 98-110, once httpCall has returned a response.
apiCallResult(response, result) ==
    LET d == IF HasBody(response) THEN Decode(response.Body, result)
             ELSE [err |-> NoError, slot |-> result]
    IN  IF d.err # NoError
        THEN [status |-> response.StatusCode, err |-> d.err, slot |-> d.slot,
              decodeCalled |-> HasBody(response)]
        ELSE IF IsFailureStatus(response.StatusCode)
        THEN [status |-> response.StatusCode, err |-> response.Status,
              slot |-> d.slot, decodeCalled |-> HasBody(response)]
        ELSE [status |-> response.StatusCode, err |-> NoError, slot |-> d.slot,
              decodeCalled |-> HasBody(response)]

\* apiCall, lines 94-96, when httpCall returns an error.
apiCallFailure(e, result) ==
    [status |-> 0, err |-> e, slot |-> result, decodeCalled |-> FALSE]

---------------------------------------------------------------------------
(* The operations.                                                         *)

Callers == {"a", "b"}

NoCall == [op |-> "none", name |-> <<>>, target |-> "", args |-> <<>>, job |-> BaseJob]

OpCall(op) == [NoCall EXCEPT !.op = op]

\* Names given to SearchJobs, targets given to DeleteJob, DeleteJobTasks and
\* StartJob, and the args of StartJob.
SearchNames == {<<>>, <<" ">>, <<"x">>, <<"x", " ">>}

Targets == {"a", ""}

StartArgs == {<<>>, << <<"arg", <<"1">>>> >>}

Calls ==
    {OpCall("Init"), OpCall("Jobs")}
    \cup {[OpCall("SearchJobs") EXCEPT !.name = n] : n \in SearchNames}
    \cup {[OpCall(o) EXCEPT !.target = t] :
            o \in {"DeleteJob", "DeleteJobTasks"}, t \in Targets}
    \cup {[OpCall("StartJob") EXCEPT !.target = t, !.args = a] :
            t \in Targets, a \in StartArgs}
    \cup {[OpCall(o) EXCEPT !.job = j] :
            o \in {"AddScheduledJob", "AddDependentJob", "RunOnceNowJob",
                   "UnscheduleJob"},
            j \in JobInputs}

PostOps == {"AddScheduledJob", "AddDependentJob", "RunOnceNowJob", "UnscheduleJob"}

Method(c) ==
    CASE c.op \in {"Init", "Jobs", "SearchJobs"} -> HTTPGet
      [] c.op \in {"DeleteJob", "DeleteJobTasks"} -> HTTPDelete
      [] c.op = "StartJob" -> HTTPPut
      [] c.op \in PostOps -> HTTPPost

\* The uri each operation hands to apiCall.
Uri(c) ==
    CASE c.op \in {"Init", "Jobs"} -> ChronosAPIJobs
      [] c.op = "SearchJobs" -> ChronosAPIJobsSearch
      [] c.op \in {"DeleteJob", "StartJob"} -> pathJoin(ChronosAPIJob, <<c.target>>)
      [] c.op = "DeleteJobTasks" -> pathJoin(ChronosAPIKillJobTask, <<c.target>>)
      [] c.op = "AddDependentJob" -> ChronosAPIAddDependentJob
      [] c.op \in {"AddScheduledJob", "RunOnceNowJob", "UnscheduleJob"} ->
            ChronosAPIAddScheduledJob

\* The queryParams each operation hands to apiCall.
Params(c) ==
    CASE c.op = "SearchJobs" -> << <<"name", c.name>> >>
      [] c.op = "StartJob" -> c.args
      [] OTHER -> <<>>

\* The result argument each operation hands to apiCall.
Result(c) == IF c.op \in {"Init", "Jobs", "SearchJobs"} THEN NewJobs ELSE NilSlot

\* strings.TrimSpace(name)
RECURSIVE TrimSpace(_)
TrimSpace(s) ==
    IF s # <<>> /\ Head(s) = " " THEN TrimSpace(Tail(s))
    ELSE IF s # <<>> /\ s[Len(s)] = " " THEN TrimSpace(SubSeq(s, 1, Len(s) - 1))
    ELSE s

SearchJobsError == "[SearchJobs] missing name argument"

\* SearchJobs, line 184.
MissingName(c) == c.op = "SearchJobs" /\ Len(TrimSpace(c.name)) = 0

UnscheduleSchedule == <<"R", "0", "/", "/", "P", "T", "0", "M">>

\* UnscheduleJob writing epsilon as RunOnceNowJob does.
PrepareJob_BothWriteEpsilon(c) ==
    CASE c.op \in {"RunOnceNowJob", "UnscheduleJob"} ->
            [c.job EXCEPT !.Schedule =
                              (IF c.op = "RunOnceNowJob"
                               THEN <<"R", "1", "/", "/", "P", "T", "2", "M">>
                               ELSE <<"R", "0", "/", "/", "P", "T", "0", "M">>),
                          !.Epsilon = "PT10M"]
      [] OTHER -> c.job

\* What RunOnceNowJob and UnscheduleJob write to the caller's Job before the
\* request is made.
PrepareJob(c) ==
    CASE c.op = "RunOnceNowJob" ->
            [c.job EXCEPT !.Schedule = RunOnceNowSchedule, !.Epsilon = "PT10M"]
      [] c.op = "UnscheduleJob" ->
            [c.job EXCEPT !.Schedule = UnscheduleSchedule]
      [] OTHER -> c.job

\* apiPost, line 80; the other verbs pass the empty body.
Body(c, job) ==
    IF c.op \in PostOps THEN Marshal(job) ELSE [err |-> NoError, text |-> <<>>]

InitErrorPrefix == "Could not reach chronos cluster: "

\* Init handing on the probe's error as it is.
OpError_Unwrapped(c, err) == err

\* What the operation returns to its caller, given apiCall's error and the
\* value behind its result argument.
OpError(c, err) ==
    IF c.op = "Init" /\ err # NoError THEN InitErrorPrefix \o err ELSE err

OpJobs(c, err, result) ==
    IF c.op \in {"Jobs", "SearchJobs"} /\ err = NoError THEN result.val ELSE <<>>

---------------------------------------------------------------------------
(* State and steps.  A call runs as the steps at which it reads or writes  *)
(* the client's URL, so that two callers of one client interleave as two   *)
(* goroutines do.                                                          *)

DefaultHost == "127.0.0.1:4400"

NoRet ==
    [status |-> 0, apiErr |-> NoError, err |-> NoError, jobs |-> <<>>,
     decodeCalled |-> FALSE, response |-> <<>>]

NoFormat == [schedule |-> <<>>, err |-> NoError, called |-> FALSE]

NoFormatInput == [startTime |-> ZeroTime, interval |-> <<>>, reps |-> <<>>]

\* DefaultChronos, or the same with an API prefix as the test builds it.
ClientInit ==
    /\ url = [Host |-> DefaultHost, Path |-> <<>>, RawQuery |-> <<>>]
    /\ apiPrefix \in {<<>>, <<"v1">>}
    /\ pc = [p \in Callers |-> "idle"]
    /\ call = [p \in Callers |-> NoCall]
    /\ jobArg = [p \in Callers |-> BaseJob]
    /\ localQuery = [p \in Callers |-> <<>>]
    /\ request = [p \in Callers |-> <<>>]
    /\ trips = [p \in Callers |-> 0]
    /\ slot = [p \in Callers |-> NilSlot]
    /\ ret = [p \in Callers |-> NoRet]

Init ==
    /\ ClientInit
    /\ fmtIn = NoFormatInput
    /\ fmtOut = NoFormat

\* The operation's entry: SearchJobs' name check, the writes of
\* RunOnceNowJob and UnscheduleJob to the Job, apiPost's json.Marshal, and
\* buildURL's reading of the URL's query (lines 114-117).
Invoke(p, c) ==
    LET job  == PrepareJob(c)
        body == Body(c, job)
        q    == buildQuery(url, Params(c))
    IN  /\ pc[p] = "idle"
        /\ MissingName(c) \/ body.err # NoError \/ Len(q) <= MaxQuery
        /\ call' = [call EXCEPT ![p] = c]
        /\ IF MissingName(c)
           THEN /\ pc' = [pc EXCEPT ![p] = "done"]
                /\ ret' = [ret EXCEPT ![p] = [NoRet EXCEPT !.err = SearchJobsError]]
                /\ UNCHANGED <<jobArg, localQuery, slot>>
           ELSE IF body.err # NoError
           THEN /\ pc' = [pc EXCEPT ![p] = "done"]
                /\ jobArg' = [jobArg EXCEPT ![p] = job]
                /\ ret' = [ret EXCEPT ![p] = [NoRet EXCEPT !.err = OpError(c, body.err)]]
                /\ UNCHANGED <<localQuery, slot>>
           ELSE /\ pc' = [pc EXCEPT ![p] = "setQuery"]
                /\ jobArg' = [jobArg EXCEPT ![p] = job]
                /\ localQuery' = [localQuery EXCEPT ![p] = q]
                /\ slot' = [slot EXCEPT ![p] = Result(c)]
                /\ UNCHANGED ret
        /\ UNCHANGED <<url, apiPrefix, request, trips, fmtVars>>

\* buildURL, line 118.
buildURL_SetRawQuery(p) ==
    /\ pc[p] = "setQuery"
    /\ url' = [url EXCEPT !.RawQuery = Encode(localQuery[p])]
    /\ pc' = [pc EXCEPT ![p] = "setPath"]
    /\ UNCHANGED <<apiPrefix, call, jobArg, localQuery, request, trips, slot, ret,
                   fmtVars>>

\* buildURL, line 120.
buildURL_SetPath(p) ==
    /\ pc[p] = "setPath"
    /\ url' = [url EXCEPT !.Path = buildPath(apiPrefix, Uri(call[p]))]
    /\ pc' = [pc EXCEPT ![p] = "newRequest"]
    /\ UNCHANGED <<apiPrefix, call, jobArg, localQuery, request, trips, slot, ret,
                   fmtVars>>

\* newRequest, line 133: client.URL.String() writes out the host and the
\* path ...
newRequest_ReadPath(p) ==
    /\ pc[p] = "newRequest"
    /\ request' = [request EXCEPT ![p] =
                     << [Method |-> Method(call[p]), Host |-> url.Host,
                         Path |-> url.Path, RawQuery |-> <<>>,
                         Body |-> Body(call[p], jobArg[p]).text] >>]
    /\ pc' = [pc EXCEPT ![p] = "readQuery"]
    /\ UNCHANGED <<url, apiPrefix, call, jobArg, localQuery, trips, slot, ret,
                   fmtVars>>

\* ... and then the query.
newRequest_ReadQuery(p) ==
    /\ pc[p] = "readQuery"
    /\ request' = [request EXCEPT ![p] =
                     << [request[p][1] EXCEPT !.RawQuery = url.RawQuery] >>]
    /\ pc' = [pc EXCEPT ![p] = "do"]
    /\ UNCHANGED <<url, apiPrefix, call, jobArg, localQuery, trips, slot, ret,
                   fmtVars>>

\* What the caller gets back from apiCall's (status, err) and result.
Finish(p, r, resp) ==
    /\ slot' = [slot EXCEPT ![p] = r.slot]
    /\ ret' = [ret EXCEPT ![p] =
                 [status |-> r.status, apiErr |-> r.err,
                  err |-> OpError(call[p], r.err),
                  jobs |-> OpJobs(call[p], r.err, r.slot),
                  decodeCalled |-> r.decodeCalled, response |-> resp]]
    /\ pc' = [pc EXCEPT ![p] = "done"]

\* httpCall, line 150, answered with a response; apiCall, lines 98-110.
Do_Respond(p, response) ==
    /\ pc[p] = "do"
    /\ trips' = [trips EXCEPT ![p] = trips[p] + 1]
    /\ Finish(p, apiCallResult(response, slot[p]), <<response>>)
    /\ UNCHANGED <<url, apiPrefix, call, jobArg, localQuery, request, fmtVars>>

\* A transport failure answered by asking again.
Do_Fail_Retry(p, e) ==
    /\ pc[p] = "do"
    /\ trips' = [trips EXCEPT ![p] = trips[p] + 1]
    /\ UNCHANGED <<url, apiPrefix, pc, call, jobArg, localQuery, request, slot,
                   ret, fmtVars>>

\* httpCall, line 150, failing in the transport; apiCall, lines 94-96.
Do_Fail(p, e) ==
    /\ pc[p] = "do"
    /\ trips' = [trips EXCEPT ![p] = trips[p] + 1]
    /\ Finish(p, apiCallFailure(e, slot[p]), <<>>)
    /\ UNCHANGED <<url, apiPrefix, call, jobArg, localQuery, request, fmtVars>>

\* The caller has its answer; its next operation starts afresh.
Return(p) ==
    /\ pc[p] = "done"
    /\ pc' = [pc EXCEPT ![p] = "idle"]
    /\ call' = [call EXCEPT ![p] = NoCall]
    /\ jobArg' = [jobArg EXCEPT ![p] = BaseJob]
    /\ localQuery' = [localQuery EXCEPT ![p] = <<>>]
    /\ request' = [request EXCEPT ![p] = <<>>]
    /\ trips' = [trips EXCEPT ![p] = 0]
    /\ slot' = [slot EXCEPT ![p] = NilSlot]
    /\ ret' = [ret EXCEPT ![p] = NoRet]
    /\ UNCHANGED <<url, apiPrefix, fmtVars>>

\* One caller, one operation after another.
Next ==
    \/ \E c \in Calls : Invoke("a", c)
    \/ buildURL_SetRawQuery("a")
    \/ buildURL_SetPath("a")
    \/ newRequest_ReadPath("a")
    \/ newRequest_ReadQuery("a")
    \/ \E response \in Responses : Do_Respond("a", response)
    \/ \E e \in TransportErrors : Do_Fail("a", e)
    \/ Return("a")

Spec == Init /\ [][Next]_vars

\* Two callers of one client, each running one operation.
ConcCalls ==
    { OpCall("Jobs"),
      [OpCall("SearchJobs") EXCEPT !.name = <<"x">>],
      [OpCall("DeleteJob") EXCEPT !.target = "a"],
      [OpCall("StartJob") EXCEPT !.target = "a", !.args = << <<"arg", <<"1">>>> >>] }

ConcResponses ==
    {r \in Responses : r.StatusCode = 200 /\ r.ContentLength = 0}

ConcNext ==
    \E p \in Callers :
        \/ \E c \in ConcCalls : Invoke(p, c)
        \/ buildURL_SetRawQuery(p)
        \/ buildURL_SetPath(p)
        \/ newRequest_ReadPath(p)
        \/ newRequest_ReadQuery(p)
        \/ \E response \in ConcResponses : Do_Respond(p, response)
        \/ \E e \in TransportErrors : Do_Fail(p, e)

ConcSpec == Init /\ [][ConcNext]_vars

---------------------------------------------------------------------------
(* FormatSchedule on its own: the arguments are drawn at the start.        *)

RepsAlphabet == {"R", "1", "x"}

IntervalAlphabet == {"P", "T"}

RepsInputs == SeqsUpTo(RepsAlphabet, MaxRepsLen)

IntervalInputs ==
    SeqsUpTo(IntervalAlphabet, MaxIntervalLen) \cup {<<"P", "T", "2", "M">>}

FmtInit ==
    /\ ClientInit
    /\ fmtIn \in [startTime : Times, interval : IntervalInputs, reps : RepsInputs]
    /\ fmtOut = NoFormat

CallFormatSchedule ==
    /\ ~fmtOut.called
    /\ fmtOut' = [schedule |-> FormatSchedule(fmtIn.startTime, fmtIn.interval,
                                               fmtIn.reps).schedule,
                  err |-> FormatSchedule(fmtIn.startTime, fmtIn.interval,
                                         fmtIn.reps).err,
                  called |-> TRUE]
    /\ UNCHANGED <<fmtIn, clientVars>>

FmtNext == CallFormatSchedule

FmtSpec == FmtInit /\ [][FmtNext]_vars

---------------------------------------------------------------------------
(* Properties.                                                             *)

\* The caller's operation has returned.
Done(p) == pc[p] = "done"

\* The caller's request is built (and, once done, was sent).
Built(p) == pc[p] \in {"do", "done"} /\ request[p] # <<>>

\* The caller is between its operation's entry and its return.
InFlight(p) == pc[p] \in {"setQuery", "setPath", "newRequest", "readQuery", "do"}

\* The request carries the path and the query of the caller's own operation.
OwnTarget(p) ==
    /\ request[p][1].Path = pathJoin(apiPrefix, Uri(call[p]))
    /\ request[p][1].RawQuery = Encode(Params(call[p]))

\* The operation got a response from the transport.
Responded(p) == Done(p) /\ ret[p].response # <<>>

\* What decoding the response's body into the operation's result does.
Decoding(p) == Decode(ret[p].response[1].Body, Result(call[p]))

\* C1: when two operations run concurrently on one client, the request of
\* each has the path and the query built from its own arguments only.
C1_NoCrossTalk ==
    \A p \in Callers : \A q \in Callers \ {p} :
        (pc[p] = "do" /\ InFlight(q)) => OwnTarget(p)

\* C2: after any sequence of earlier operations, run one after another, the
\* request of the next one targets join(APIPrefix, resource), carries exactly
\* the query parameters given to that operation, and the client's base
\* address is that of construction.
C2_NoStateBetweenCalls ==
    \A p \in Callers :
        (Done(p) /\ Built(p)) =>
            /\ OwnTarget(p)
            /\ request[p][1].Host = DefaultHost
            /\ url.Host = DefaultHost

\* C3: when the transport returns a response and any decoding of its body
\* succeeds, apiCall returns no error exactly if the status is in [200,299],
\* otherwise an error whose text is the status line; the status it returns
\* is the response's, with or without a body.
C3_StatusClassification ==
    \A p \in Callers :
        (Responded(p) /\ (ret[p].decodeCalled => Decoding(p).err = NoError)) =>
            LET response == ret[p].response[1] IN
            /\ ret[p].apiErr = NoError
                  <=> (response.StatusCode >= 200 /\ response.StatusCode <= 299)
            /\ ret[p].apiErr # NoError => ret[p].apiErr = response.Status
            /\ ret[p].status = response.StatusCode

C3_Witness ==
    \E p \in Callers :
        /\ Responded(p)
        /\ ret[p].response[1].StatusCode = 500
        /\ ret[p].response[1].Body.kind = "jobs"
        /\ ret[p].decodeCalled
        /\ ret[p].apiErr = "500 Internal Server Error"
        /\ ret[p].status = 500

\* C4 as stated: every 500 response with a valid JSON body leaves the decoded
\* value in the result slot and fails with the error of the status line.
C4_Original ==
    \A p \in Callers :
        (/\ Responded(p)
         /\ ret[p].response[1].StatusCode = 500
         /\ ret[p].response[1].Body.kind \in {"jobs", "object"}) =>
            ret[p].apiErr = "500 Internal Server Error"

\* C4, amended: a non-empty body is decoded before the status is looked at.
\* A 500 response whose body decodes into the caller's result slot leaves
\* the decoded value there and fails with the error of the status line; a
\* response whose non-empty body cannot be decoded into the slot fails with
\* the decoding error, whatever its status, 2xx included.
C4_DecodeBeforeStatus ==
    \A p \in Callers :
        (Responded(p) /\ ret[p].response[1].Body.kind # "empty") =>
            LET response == ret[p].response[1] IN
            /\ ret[p].decodeCalled
            /\ (response.StatusCode = 500 /\ Decoding(p).err = NoError) =>
                  /\ slot[p].ptr
                  /\ slot[p].val = response.Body.val
                  /\ ret[p].apiErr = "500 Internal Server Error"
            /\ Decoding(p).err # NoError =>
                  /\ ret[p].apiErr = Decoding(p).err
                  /\ ret[p].apiErr # response.Status

C4_Witness ==
    \E p \in Callers :
        /\ Responded(p)
        /\ ret[p].response[1].StatusCode = 500
        /\ ret[p].response[1].Body.kind = "jobs"
        /\ slot[p].val = <<"j1">>
        /\ ret[p].apiErr = "500 Internal Server Error"

\* C5: whenever the response's body is empty, no decode is attempted and the
\* result slot keeps the caller's value; with status 200 the call succeeds.
\* This holds however the response reports its length.
C5_EmptyBodyNoDecode ==
    \A p \in Callers :
        (Responded(p) /\ ret[p].response[1].Body.kind = "empty") =>
            /\ ~ret[p].decodeCalled
            /\ slot[p] = Result(call[p])
            /\ ret[p].response[1].StatusCode = 200 => ret[p].apiErr = NoError

\* C6 as stated: every operation makes exactly one round trip when its input
\* passes validation and none when SearchJobs is given a blank name.
C6_Original ==
    \A p \in Callers :
        Done(p) =>
            /\ ~MissingName(call[p]) => trips[p] = 1
            /\ MissingName(call[p]) => trips[p] = 0

\* C6, amended: every operation makes at most one round trip: exactly one
\* when its input passes validation and its body serializes to JSON, none
\* when SearchJobs is given a blank name (a validation error) or the Job
\* cannot be serialized (the serialization error).  No outcome brings a
\* second attempt, and a transport failure is returned with status code 0.
C6_SingleRoundTrip ==
    \A p \in Callers :
        /\ trips[p] <= 1
        /\ Done(p) =>
              /\ trips[p] = 1
                    <=> (~MissingName(call[p])
                         /\ Body(call[p], PrepareJob(call[p])).err = NoError)
              /\ MissingName(call[p]) => ret[p].err = SearchJobsError
              /\ (~MissingName(call[p])
                  /\ Body(call[p], PrepareJob(call[p])).err # NoError) =>
                    ret[p].err = MarshalError
              /\ (trips[p] = 1 /\ ret[p].response = <<>>) =>
                    /\ ret[p].status = 0
                    /\ ret[p].apiErr \in TransportErrors

C6_Witness ==
    \E p \in Callers :
        /\ Done(p)
        /\ trips[p] = 1
        /\ ret[p].response = <<>>
        /\ ret[p].status = 0
        /\ ret[p].apiErr \in TransportErrors

\* C7: Init makes the list-jobs call (GET on join(APIPrefix,
\* "scheduler/jobs")) exactly once; if that call fails for any reason Init's
\* error is "Could not reach chronos cluster: " followed by the call's error
\* text, and if it succeeds Init returns no error.
C7_InitProbe ==
    \A p \in Callers :
        (Done(p) /\ call[p].op = "Init") =>
            /\ trips[p] = 1
            /\ request[p] # <<>>
            /\ request[p][1].Method = "GET"
            /\ request[p][1].Path = pathJoin(apiPrefix, <<"scheduler", "jobs">>)
            /\ ret[p].apiErr # NoError =>
                  ret[p].err = "Could not reach chronos cluster: " \o ret[p].apiErr
            /\ ret[p].apiErr = NoError => ret[p].err = NoError

C7_Witness ==
    \E p \in Callers :
        /\ Done(p)
        /\ call[p].op = "Init"
        /\ trips[p] = 1
        /\ ret[p].err = "Could not reach chronos cluster: 500 Internal Server Error"

\* The grammar of repetitions: R followed by zero or more digits.
MatchesReps(reps) ==
    /\ reps # <<>>
    /\ reps[1] = "R"
    /\ \A i \in 2..Len(reps) : IsDigit(reps[i])

\* C8: FormatSchedule fails (and returns the empty string) for every
\* repetitions string that is not R followed by zero or more digits, and for
\* every interval that does not begin with P, whatever the other argument.
C8_RejectsMalformed ==
    (fmtOut.called /\ (~MatchesReps(fmtIn.reps) \/ ~HasPrefix(fmtIn.interval, <<"P">>)))
        => (fmtOut.err # NoError /\ fmtOut.schedule = <<>>)

\* C9: for repetitions matching R followed by digits and an interval that
\* begins with P, FormatSchedule succeeds and returns repetitions "/" start
\* "/" interval, start being empty for the zero instant and the rendered
\* timestamp otherwise; (zero instant, "PT2M", "R1") gives
\* RunOnceNowSchedule(), which is "R1//PT2M".
C9_FormatsValid ==
    /\ RunOnceNowSchedule = <<"R", "1", "/", "/", "P", "T", "2", "M">>
    /\ (/\ fmtOut.called
        /\ MatchesReps(fmtIn.reps)
        /\ HasPrefix(fmtIn.interval, <<"P">>)) =>
            /\ fmtOut.err = NoError
            /\ fmtOut.schedule =
                  fmtIn.reps \o <<"/">>
                  \o (IF IsZero(fmtIn.startTime) THEN <<>>
                      ELSE RFC3339Nano(fmtIn.startTime))
                  \o <<"/">> \o fmtIn.interval
            /\ IsZero(fmtIn.startTime) =>
                  Len(fmtOut.schedule) = Len(fmtIn.reps) + Len(fmtIn.interval) + 2
            /\ (/\ IsZero(fmtIn.startTime)
                /\ fmtIn.interval = <<"P", "T", "2", "M">>
                /\ fmtIn.reps = <<"R", "1">>) =>
                  fmtOut.schedule = RunOnceNowSchedule
            /\ (/\ fmtIn.startTime = [day |-> 738520, sec |-> 0, nsec |-> 0, off |-> 0]
                /\ fmtIn.interval = <<"P">>
                /\ fmtIn.reps = <<"R">>) =>
                  fmtOut.schedule =
                     <<"R", "/", "2", "0", "2", "3", "-", "0", "1", "-", "0", "1",
                       "T", "0", "0", ":", "0", "0", ":", "0", "0", "Z", "/", "P">>

C9_Witness ==
    /\ fmtOut.called
    /\ fmtIn.reps = <<"R", "1">>
    /\ fmtIn.interval = <<"P", "T", "2", "M">>
    /\ fmtIn.startTime = [day |-> 0, sec |-> 0, nsec |-> 0, off |-> 3600]
    /\ fmtOut.err = NoError
    /\ fmtOut.schedule = RunOnceNowSchedule

\* The request's JSON body has the Job's fields, but for schedule and epsilon,
\* as the caller supplied them.
BodyKeepsOtherFields(p) ==
    LET body == request[p][1].Body[1]
        job  == call[p].job
    IN  /\ body.name = job.Name
        /\ body.command = job.Command
        /\ body.cpus = job.CPUs
        /\ body.parents = job.Parents
        /\ "name" \in body.keys /\ "command" \in body.keys
        /\ "cpus" \in body.keys <=> job.CPUs # "0"
        /\ "parents" \in body.keys <=> job.Parents # <<>>

\* The request is one POST to scheduler/iso8601 with the overwritten Job.
RescheduleRequest(p) ==
    /\ trips[p] = 1
    /\ request[p] # <<>>
    /\ request[p][1].Method = "POST"
    /\ request[p][1].Path = pathJoin(apiPrefix, <<"scheduler", "iso8601">>)
    /\ Len(request[p][1].Body) = 1
    /\ "schedule" \in request[p][1].Body[1].keys
    /\ call[p].op = "RunOnceNowJob" =>
          /\ request[p][1].Body[1].schedule = <<"R", "1", "/", "/", "P", "T", "2", "M">>
          /\ request[p][1].Body[1].epsilon = "PT10M"
          /\ "epsilon" \in request[p][1].Body[1].keys
    /\ call[p].op = "UnscheduleJob" =>
          /\ request[p][1].Body[1].schedule = <<"R", "0", "/", "/", "P", "T", "0", "M">>
          /\ request[p][1].Body[1].epsilon = call[p].job.Epsilon
    /\ BodyKeepsOtherFields(p)

\* C10 as stated: RunOnceNowJob and UnscheduleJob each send one POST to
\* scheduler/iso8601 whose body is the Job with schedule (and epsilon)
\* overwritten and every other field as supplied.
C10_Original ==
    \A p \in Callers :
        (Done(p) /\ call[p].op \in {"RunOnceNowJob", "UnscheduleJob"}) =>
            RescheduleRequest(p)

\* C10, amended: provided the Job serializes to JSON, RunOnceNowJob and
\* UnscheduleJob each send one POST to scheduler/iso8601 whose body is the
\* Job with schedule (and, for RunOnceNowJob, epsilon) overwritten and every
\* other field as supplied; a Job that does not serialize is overwritten the
\* same and no request is sent.
C10_RescheduleBody ==
    \A p \in Callers :
        (Done(p) /\ call[p].op \in {"RunOnceNowJob", "UnscheduleJob"}) =>
            /\ Marshal(jobArg[p]).err = NoError => RescheduleRequest(p)
            /\ Marshal(jobArg[p]).err # NoError =>
                  trips[p] = 0 /\ request[p] = <<>>
            /\ jobArg[p].Schedule =
                  (IF call[p].op = "RunOnceNowJob"
                   THEN <<"R", "1", "/", "/", "P", "T", "2", "M">>
                   ELSE <<"R", "0", "/", "/", "P", "T", "0", "M">>)

C10_Witness ==
    \E p \in Callers :
        /\ Done(p)
        /\ call[p].op = "RunOnceNowJob"
        /\ call[p].job.Parents = <<"p">>
        /\ call[p].job.Epsilon = "PT10M"
        /\ trips[p] = 1
        /\ request[p][1].Body[1].parents = <<"p">>
        /\ request[p][1].Body[1].schedule = RunOnceNowSchedule

====
